---- MODULE Spec2Model ----
(***************************************************************************)
(* A model of the Flask blog of src/main.py: the three tables (users,      *)
(* blog_posts, comments), the per-client login session, and one action per *)
(* route handler.  Every handler leaves its response in resp, so that a    *)
(* property can speak of the request a step served and of what it          *)
(* answered.                                                               *)
(***************************************************************************)
EXTENDS Integers, Sequences, FiniteSets, TLC

VARIABLES
    users,      \* table users:      id -> [name, email, password]
    posts,      \* table blog_posts: id -> [author_id, title, subtitle, date, body, img_url]
    comments,   \* table comments:   id -> [author_id, post_id, text]
    session,    \* client -> the user id its session cookie holds, or Anonymous
    inflight,   \* client -> the register form that passed the existence check
                \* and is not committed yet (threaded server), or NoForm
    deleted,    \* history: the post ids delete_post has succeeded for
    resp        \* the request served last and its response

vars == <<users, posts, comments, session, inflight, deleted, resp>>
tables == <<users, posts, comments>>

---------------------------------------------------------------------------
(* Bounds of the model. *)
MaxPostId == 2
MaxComments == 1

(* The id the guard compares with. *)
ADMIN_ID == 1
(* current_user.is_authenticated is false: the session holds no user id. *)
Anonymous == 0
(* A NULL foreign key (Comment.post_id is nullable). *)
NoPost == 0

(* The clients of the threaded server, and the one client whose requests  *)
(* are served one after the other.                                          *)
Clients == {"c1", "c2"}
Visitors == {"c1"}
NoForm == <<>>

(* Inputs. *)
RegisterForms ==
    { [name |-> "Ann", email |-> "ann@x.io", password |-> "pw1"],
      [name |-> "Bob", email |-> "bob@x.io", password |-> "pw2"] }
LoginForms ==
    { [email |-> "ann@x.io", password |-> "pw1"],
      [email |-> "ann@x.io", password |-> "pw2"],
      [email |-> "bob@x.io", password |-> "pw2"],
      [email |-> "zed@x.io", password |-> "pw1"] }
PostForms ==
    { [title |-> "T1", subtitle |-> "s1", body |-> "b1", img_url |-> "i1"],
      [title |-> "T2", subtitle |-> "s2", body |-> "b2", img_url |-> "i2"] }
CommentForms == { [comment |-> "nice"] }
Salts == {"a1b2c3d4"}
Days == { [year |-> 2024, month |-> 4, day |-> 5],
          [year |-> 2024, month |-> 12, day |-> 25] }
PostIds == 1 .. MaxPostId

---------------------------------------------------------------------------
(* The storage layer. *)

Max(S) == CHOOSE m \in S : \A k \in S : k <= m

(* An INTEGER PRIMARY KEY column without AUTOINCREMENT: the new row gets   *)
(* one more than the largest id in use, so the largest id is used again    *)
(* once its row is gone.                                                    *)
NextId(table) == IF DOMAIN table = {} THEN 1 ELSE Max(DOMAIN table) + 1

Insert(table, row) == table @@ (NextId(table) :> row)

(* db.get_or_404: is there a row with this primary key? *)
Found(table, id) == id \in DOMAIN table

(* unique=True on User.email: may a row with this email be inserted? *)
EmailUnique_Unchecked(email) == TRUE
EmailUniqueOk(email) == \A u \in DOMAIN users : users[u].email # email

(* unique=True on BlogPost.title: may row `id` (NoPost: a new row) hold    *)
(* this title?                                                              *)
TitleUniqueOk(id, title) ==
    \A p \in DOMAIN posts : p # id => posts[p].title # title

(* db.select(User).where(User.email == email)).scalar(): the id, or        *)
(* Anonymous (None) when no user has the email.                             *)
user_by_email_None(email) == Anonymous
user_by_email(email) ==
    IF \E u \in DOMAIN users : users[u].email = email
    THEN CHOOSE u \in DOMAIN users : users[u].email = email
    ELSE Anonymous

---------------------------------------------------------------------------
(* The password hasher: the stored string names the method and the salt,   *)
(* and ends in a digest of salt and password.                               *)
generate_password_hash_Plain(password, salt) == password
generate_password_hash(password, salt) ==
    "pbkdf2:sha256$" \o salt \o "$H(" \o salt \o "," \o password \o ")"

(* check_password_hash reads method and salt back from the stored string   *)
(* and compares the digests.                                                *)
check_password_hash(pwhash, password) ==
    \E salt \in Salts : pwhash = generate_password_hash(password, salt)

check_password_Always(user, password) == TRUE
check_password(user, password) == check_password_hash(user.password, password)

(* date.today().strftime("%B %d, %Y") *)
MonthName ==
    <<"January", "February", "March", "April", "May", "June", "July",
      "August", "September", "October", "November", "December">>
strftime(d) ==
    MonthName[d.month] \o " "
        \o (IF d.day < 10 THEN "0" ELSE "") \o ToString(d.day)
        \o ", " \o ToString(d.year)

---------------------------------------------------------------------------
(* Sessions. *)
login_user(c, uid) == [session EXCEPT ![c] = uid]
logout_user_Keep(c) == session
logout_user(c) == [session EXCEPT ![c] = Anonymous]
current_user(c) == session[c]
is_authenticated(c) == session[c] # Anonymous

(* The guard of admin_only: does the wrapped function run? *)
admin_only_AnyUser(c) == is_authenticated(c)
admin_only(c) ==
    IF ~is_authenticated(c) THEN FALSE
    ELSE IF current_user(c) # ADMIN_ID THEN FALSE
    ELSE TRUE

---------------------------------------------------------------------------
(* Responses.  body tells whether the route function itself ran.           *)
Response(h, m, c, pid, form, status, location, body) ==
    [handler |-> h, method |-> m, client |-> c, post_id |-> pid,
     form |-> form, status |-> status, location |-> location, body |-> body]

Init ==
    /\ users = <<>>
    /\ posts = <<>>
    /\ comments = <<>>
    /\ session = [c \in Clients |-> Anonymous]
    /\ inflight = [c \in Clients |-> NoForm]
    /\ deleted = {}
    /\ resp = Response("none", "", "", NoPost, NoForm, 0, "", FALSE)

---------------------------------------------------------------------------
(* Requests.  form.validate_on_submit() holds of a POST whose fields pass  *)
(* the form's validators; every form below passes them.                     *)
Get == [method |-> "GET", form |-> NoForm]
Post(form) == [method |-> "POST", form |-> form]
Requests(forms) == {Get} \cup {Post(f) : f \in forms}
validate_on_submit(req) == req.method = "POST"

---------------------------------------------------------------------------
(* register *)

(* Lines 139-151: hash, insert, commit, log the new user in.  The commit   *)
(* raises IntegrityError when the email is taken by now: nothing catches   *)
(* it, the request ends in 500 and login_user is never reached.            *)
register_insert(c, form) ==
    \E salt \in Salts :
        LET new_user == [name |-> form.name, email |-> form.email,
                         password |-> generate_password_hash(form.password, salt)]
        IN  IF EmailUniqueOk(form.email)
            THEN /\ users' = Insert(users, new_user)
                 /\ session' = login_user(c, NextId(users))
                 /\ resp' = Response("register", "POST", c, NoPost, form,
                                     302, "get_all_posts", TRUE)
            ELSE /\ UNCHANGED <<users, session>>
                 /\ resp' = Response("register", "POST", c, NoPost, form,
                                     500, "", TRUE)

(* The request served to completion. *)
register(c, req) ==
    /\ inflight[c] = NoForm
    /\ IF ~validate_on_submit(req)
       THEN /\ resp' = Response("register", req.method, c, NoPost, NoForm,
                                200, "", TRUE)
            /\ UNCHANGED <<users, session>>
       ELSE IF user_by_email(req.form.email) # Anonymous
       THEN /\ resp' = Response("register", "POST", c, NoPost, req.form,
                                302, "login", TRUE)
            /\ UNCHANGED <<users, session>>
       ELSE register_insert(c, req.form)
    /\ UNCHANGED <<posts, comments, inflight, deleted>>

(* The same request on the threaded server, in two steps: the existence    *)
(* check (line 135), after which other requests may be served, and then    *)
(* the insert (lines 139-151).                                              *)
register_select(c, form) ==
    /\ inflight[c] = NoForm
    /\ IF user_by_email(form.email) # Anonymous
       THEN /\ resp' = Response("register", "POST", c, NoPost, form,
                                302, "login", TRUE)
            /\ UNCHANGED inflight
       ELSE /\ inflight' = [inflight EXCEPT ![c] = form]
            /\ UNCHANGED resp
    /\ UNCHANGED <<tables, session, deleted>>

register_commit(c) ==
    /\ inflight[c] # NoForm
    /\ register_insert(c, inflight[c])
    /\ inflight' = [inflight EXCEPT ![c] = NoForm]
    /\ UNCHANGED <<posts, comments, deleted>>

---------------------------------------------------------------------------
(* login, logout *)
login(c, req) ==
    /\ IF ~validate_on_submit(req)
       THEN /\ resp' = Response("login", req.method, c, NoPost, NoForm,
                                200, "", TRUE)
            /\ UNCHANGED session
       ELSE LET entered_user == user_by_email(req.form.email)
            IN  IF entered_user = Anonymous
                THEN /\ resp' = Response("login", "POST", c, NoPost, req.form,
                                         302, "login", TRUE)
                     /\ UNCHANGED session
                ELSE IF check_password(users[entered_user], req.form.password)
                THEN /\ session' = login_user(c, entered_user)
                     /\ resp' = Response("login", "POST", c, NoPost, req.form,
                                         302, "get_all_posts", TRUE)
                ELSE /\ resp' = Response("login", "POST", c, NoPost, req.form,
                                         302, "login", TRUE)
                     /\ UNCHANGED session
    /\ UNCHANGED <<tables, inflight, deleted>>

logout(c) ==
    /\ session' = logout_user(c)
    /\ resp' = Response("logout", "GET", c, NoPost, NoForm,
                        302, "get_all_posts", TRUE)
    /\ UNCHANGED <<tables, inflight, deleted>>

---------------------------------------------------------------------------
(* The page that only reads. *)
get_all_posts(c) ==
    /\ resp' = Response("get_all_posts", "GET", c, NoPost, NoForm, 200, "", TRUE)
    /\ UNCHANGED <<tables, session, inflight, deleted>>

---------------------------------------------------------------------------
(* show_post: the post's page, and a comment on it. *)
new_comment_Unlinked(c, post_id, form) ==
    [author_id |-> current_user(c), post_id |-> NoPost, text |-> form.comment]
new_comment(c, post_id, form) ==
    [author_id |-> current_user(c), post_id |-> post_id, text |-> form.comment]

show_post(c, post_id, req) ==
    /\ IF ~Found(posts, post_id)
       THEN /\ resp' = Response("show_post", req.method, c, post_id, NoForm,
                                404, "", TRUE)
            /\ UNCHANGED comments
       ELSE IF ~validate_on_submit(req)
       THEN /\ resp' = Response("show_post", req.method, c, post_id, NoForm,
                                200, "", TRUE)
            /\ UNCHANGED comments
       ELSE IF ~is_authenticated(c)
       THEN /\ resp' = Response("show_post", "POST", c, post_id, req.form,
                                302, "login", TRUE)
            /\ UNCHANGED comments
       ELSE /\ Cardinality(DOMAIN comments) < MaxComments
            /\ comments' = Insert(comments, new_comment(c, post_id, req.form))
            /\ resp' = Response("show_post", "POST", c, post_id, req.form,
                                302, "show_post", TRUE)
    /\ UNCHANGED <<users, posts, session, inflight, deleted>>

---------------------------------------------------------------------------
(* The admin's routes.  A request the guard turns away is answered by      *)
(* abort(403) and the route function does not run.                          *)
Forbidden(h, c, post_id, req) ==
    /\ resp' = Response(h, req.method, c, post_id, NoForm, 403, "", FALSE)
    /\ UNCHANGED <<tables, session, inflight, deleted>>

new_post(c, form, today) ==
    [author_id |-> current_user(c), title |-> form.title,
     subtitle |-> form.subtitle, date |-> strftime(today),
     body |-> form.body, img_url |-> form.img_url]

add_new_post(c, req, today) ==
    IF ~admin_only(c) THEN Forbidden("add_new_post", c, NoPost, req)
    ELSE
    /\ IF ~validate_on_submit(req)
       THEN /\ resp' = Response("add_new_post", req.method, c, NoPost, NoForm,
                                200, "", TRUE)
            /\ UNCHANGED posts
       ELSE IF ~TitleUniqueOk(NoPost, req.form.title)
       THEN /\ resp' = Response("add_new_post", "POST", c, NoPost, req.form,
                                500, "", TRUE)
            /\ UNCHANGED posts
       ELSE /\ NextId(posts) <= MaxPostId
            /\ posts' = Insert(posts, new_post(c, req.form, today))
            /\ resp' = Response("add_new_post", "POST", c, NoPost, req.form,
                                302, "get_all_posts", TRUE)
    /\ UNCHANGED <<users, comments, session, inflight, deleted>>

edited_post_KeepImage(post, c, form) ==
    [post EXCEPT !.title = form.title, !.subtitle = form.subtitle,
                 !.author_id = current_user(c), !.body = form.body]
edited_post(post, c, form) ==
    [post EXCEPT !.title = form.title, !.subtitle = form.subtitle,
                 !.img_url = form.img_url, !.author_id = current_user(c),
                 !.body = form.body]

edit_post(c, post_id, req) ==
    IF ~admin_only(c) THEN Forbidden("edit_post", c, post_id, req)
    ELSE
    /\ IF ~Found(posts, post_id)
       THEN /\ resp' = Response("edit_post", req.method, c, post_id, NoForm,
                                404, "", TRUE)
            /\ UNCHANGED posts
       ELSE IF ~validate_on_submit(req)
       THEN /\ resp' = Response("edit_post", req.method, c, post_id, NoForm,
                                200, "", TRUE)
            /\ UNCHANGED posts
       ELSE IF ~TitleUniqueOk(post_id, req.form.title)
       THEN /\ resp' = Response("edit_post", "POST", c, post_id, req.form,
                                500, "", TRUE)
            /\ UNCHANGED posts
       ELSE /\ posts' = [posts EXCEPT
                            ![post_id] = edited_post(@, c, req.form)]
            /\ resp' = Response("edit_post", "POST", c, post_id, req.form,
                                302, "show_post", TRUE)
    /\ UNCHANGED <<users, comments, session, inflight, deleted>>

(* db.session.delete(post): the row goes, and the rows of its `comments`   *)
(* relationship, which declares no delete cascade, are kept with their     *)
(* post_id set to NULL.                                                     *)
without_post_Keep(post_id) == posts
without_post(post_id) == [p \in DOMAIN posts \ {post_id} |-> posts[p]]

comments_without_post(post_id) ==
    [k \in DOMAIN comments |->
        IF comments[k].post_id = post_id
        THEN [comments[k] EXCEPT !.post_id = NoPost]
        ELSE comments[k]]

delete_post_rows(c, post_id) ==
    /\ IF ~admin_only(c)
       THEN /\ resp' = Response("delete_post", "GET", c, post_id, NoForm,
                                403, "", FALSE)
            /\ UNCHANGED <<posts, comments>>
       ELSE IF ~Found(posts, post_id)
       THEN /\ resp' = Response("delete_post", "GET", c, post_id, NoForm,
                                404, "", TRUE)
            /\ UNCHANGED <<posts, comments>>
       ELSE /\ posts' = without_post(post_id)
            /\ comments' = comments_without_post(post_id)
            /\ resp' = Response("delete_post", "GET", c, post_id, NoForm,
                                302, "get_all_posts", TRUE)
    /\ UNCHANGED <<users, session, inflight>>

delete_post(c, post_id) ==
    /\ delete_post_rows(c, post_id)
    /\ UNCHANGED deleted

(* delete_post, with the ids it has deleted written down. *)
delete_post_recorded(c, post_id) ==
    /\ delete_post_rows(c, post_id)
    /\ deleted' = IF resp'.status = 302 THEN deleted \cup {post_id} ELSE deleted

---------------------------------------------------------------------------
(* Every request is served to completion before the next one. *)
Next ==
    \/ \E c \in Visitors, req \in Requests(RegisterForms) : register(c, req)
    \/ \E c \in Visitors, req \in Requests(LoginForms) : login(c, req)
    \/ \E c \in Visitors : logout(c)
    \/ \E c \in Visitors : get_all_posts(c)
    \/ \E c \in Visitors, p \in PostIds, req \in Requests(CommentForms) :
            show_post(c, p, req)
    \/ \E c \in Visitors, req \in Requests(PostForms), today \in Days :
            add_new_post(c, req, today)
    \/ \E c \in Visitors, p \in PostIds, req \in Requests(PostForms) :
            edit_post(c, p, req)
    \/ \E c \in Visitors, p \in PostIds : delete_post(c, p)

Spec == Init /\ [][Next]_vars

(* The same requests, with the history of deletions kept. *)
NextRecorded ==
    \/ \E c \in Visitors, req \in Requests(RegisterForms) : register(c, req)
    \/ \E c \in Visitors, req \in Requests(LoginForms) : login(c, req)
    \/ \E c \in Visitors : logout(c)
    \/ \E c \in Visitors : get_all_posts(c)
    \/ \E c \in Visitors, p \in PostIds, req \in Requests(CommentForms) :
            show_post(c, p, req)
    \/ \E c \in Visitors, req \in Requests(PostForms), today \in Days :
            add_new_post(c, req, today)
    \/ \E c \in Visitors, p \in PostIds, req \in Requests(PostForms) :
            edit_post(c, p, req)
    \/ \E c \in Visitors, p \in PostIds : delete_post_recorded(c, p)

SpecRecorded == Init /\ [][NextRecorded]_vars

(* The threaded server (app.run serves each request in a thread of its     *)
(* own): the requests that read or write users and sessions, from two      *)
(* clients, with register's check and register's insert as two steps.      *)
NextThreaded ==
    \/ \E c \in Clients, form \in RegisterForms : register_select(c, form)
    \/ \E c \in Clients : register_commit(c)
    \/ \E c \in Clients, req \in Requests(LoginForms) : login(c, req)
    \/ \E c \in Clients : logout(c)

SpecThreaded == Init /\ [][NextThreaded]_vars

---------------------------------------------------------------------------
(* Properties.  In a step that is not a stuttering step, resp' is the      *)
(* request the step served and its response, and the unprimed variables    *)
(* are the state the request found.                                         *)

AdminHandlers == {"add_new_post", "edit_post", "delete_post"}
EmailTaken(email) == \E u \in DOMAIN users : users[u].email = email

(* C1: a request to add_new_post, edit_post or delete_post from a client   *)
(* whose session is anonymous or is another user's than user 1 is answered *)
(* 403, the route function does not run, and no table changes.             *)
C1_NonAdminForbidden ==
    [][ (resp'.handler \in AdminHandlers /\ session[resp'.client] # ADMIN_ID)
            => /\ resp'.status = 403
               /\ ~resp'.body
               /\ UNCHANGED tables ]_vars

(* A logged-in user who is not the admin was turned away, with a post in   *)
(* the store.                                                               *)
C1_Witness ==
    /\ resp.handler \in AdminHandlers
    /\ resp.status = 403
    /\ session[resp.client] \notin {Anonymous, ADMIN_ID}
    /\ DOMAIN posts # {}

(* C2: every comment references a post and a user that exist, and every    *)
(* post a user that exists, in every reachable state.                       *)
C2_ReferencesLive ==
    /\ \A k \in DOMAIN comments :
            /\ comments[k].post_id \in DOMAIN posts
            /\ comments[k].author_id \in DOMAIN users
    /\ \A p \in DOMAIN posts : posts[p].author_id \in DOMAIN users

(* C3: a valid register submission with an email some user has inserts no  *)
(* user (one user has that email afterwards), leaves the session as it was *)
(* and redirects to login.                                                  *)
C3_DuplicateEmailRedirects ==
    [][ (/\ resp'.handler = "register"
         /\ resp'.method = "POST"
         /\ EmailTaken(resp'.form.email))
            => /\ users' = users
               /\ Cardinality({u \in DOMAIN users' :
                        users'[u].email = resp'.form.email}) = 1
               /\ session' = session
               /\ resp'.status = 302
               /\ resp'.location = "login" ]_vars

(* A second submission of an email was redirected to login, by a client    *)
(* logged in as another user than the email's.                              *)
C3_Witness ==
    /\ resp.handler = "register"
    /\ resp.method = "POST"
    /\ resp.location = "login"
    /\ \E u \in DOMAIN users :
            /\ users[u].email = resp.form.email
            /\ session[resp.client] \notin {Anonymous, u}

(* C4: a valid comment submission on an existing post: from an anonymous   *)
(* session no comment is created and the answer redirects to login; from   *)
(* the session of user u exactly one comment is added, by u, on that post, *)
(* and no other row changes.                                                *)
C4_CommentSubmission ==
    [][ (/\ resp'.handler = "show_post"
         /\ resp'.method = "POST"
         /\ resp'.post_id \in DOMAIN posts)
            => LET u == session[resp'.client]
               IN  /\ UNCHANGED <<users, posts, session>>
                   /\ IF u = Anonymous
                      THEN /\ comments' = comments
                           /\ resp'.status = 302
                           /\ resp'.location = "login"
                      ELSE \E k \in DOMAIN comments' \ DOMAIN comments :
                           /\ DOMAIN comments' = DOMAIN comments \cup {k}
                           /\ comments'[k] =
                                [author_id |-> u, post_id |-> resp'.post_id,
                                 text |-> resp'.form.comment]
                           /\ \A j \in DOMAIN comments :
                                comments'[j] = comments[j] ]_vars

(* A user who is not the post's author has commented on it. *)
C4_Witness ==
    /\ resp.handler = "show_post"
    /\ resp.method = "POST"
    /\ resp.status = 302
    /\ resp.location = "show_post"
    /\ \E k \in DOMAIN comments :
            /\ comments[k].post_id = resp.post_id
            /\ comments[k].author_id = session[resp.client]
            /\ comments[k].author_id # posts[resp.post_id].author_id

(* C5: a login submission with a user's email and the password matching    *)
(* the stored hash binds the session to that user; any other login         *)
(* submission changes neither the session nor a table and redirects to     *)
(* login.                                                                   *)
C5_Login ==
    [][ (resp'.handler = "login" /\ resp'.method = "POST")
            => LET form == resp'.form
                   ok == {u \in DOMAIN users :
                            /\ users[u].email = form.email
                            /\ check_password_hash(users[u].password,
                                                   form.password)}
               IN  /\ UNCHANGED tables
                   /\ IF ok # {}
                      THEN \E u \in ok :
                            session' = [session EXCEPT ![resp'.client] = u]
                      ELSE /\ session' = session
                           /\ resp'.status = 302
                           /\ resp'.location = "login" ]_vars

(* A login with the right password has succeeded where two users exist. *)
C5_Witness ==
    /\ resp.handler = "login"
    /\ resp.method = "POST"
    /\ resp.location = "get_all_posts"
    /\ Cardinality(DOMAIN users) = 2
    /\ session[resp.client] # Anonymous
    /\ users[session[resp.client]].email = resp.form.email

(* C6, as claimed: once delete_post has succeeded for p, every GET of      *)
(* show_post(p) is answered 404.                                            *)
C6_DeletedStaysNotFound ==
    (resp.handler = "show_post" /\ resp.method = "GET"
        /\ resp.post_id \in deleted) => resp.status = 404

(* C6, amended: delete_post leaves no post with the id; a GET of an id no  *)
(* post has is answered 404; and an id delete_post has succeeded for       *)
(* becomes a post's id again only by an add_new_post that the storage      *)
(* gives that id, one more than the largest id in use.                      *)
C6_NotFoundUntilIdReused ==
    [][ /\ (resp'.handler = "delete_post" /\ resp'.status = 302)
            => resp'.post_id \notin DOMAIN posts'
        /\ (resp'.handler = "show_post" /\ resp'.method = "GET"
                /\ resp'.post_id \notin DOMAIN posts)
            => resp'.status = 404
        /\ \A p \in deleted \ DOMAIN posts :
            p \in DOMAIN posts'
                => /\ resp'.handler = "add_new_post"
                   /\ resp'.status = 302
                   /\ p = NextId(posts) ]_vars

(* A GET of a deleted post's id was answered 404 while another post exists. *)
C6_Witness ==
    /\ resp.handler = "show_post"
    /\ resp.method = "GET"
    /\ resp.post_id \in deleted
    /\ resp.status = 404
    /\ DOMAIN posts # {}

(* C7: a valid register submission with an email no user has adds exactly  *)
(* one user, with the submitted name and email and with the hash of the    *)
(* submitted password, not the password, and logs the client in as that    *)
(* user; no other row changes.                                              *)
C7_FreshEmailRegisters ==
    [][ (/\ resp'.handler = "register"
         /\ resp'.method = "POST"
         /\ ~EmailTaken(resp'.form.email))
            => LET form == resp'.form
               IN  \E k \in DOMAIN users' \ DOMAIN users :
                    /\ DOMAIN users' = DOMAIN users \cup {k}
                    /\ \A j \in DOMAIN users : users'[j] = users[j]
                    /\ users'[k].name = form.name
                    /\ users'[k].email = form.email
                    /\ users'[k].password # form.password
                    /\ check_password_hash(users'[k].password, form.password)
                    /\ session' = [session EXCEPT ![resp'.client] = k]
                    /\ UNCHANGED <<posts, comments>> ]_vars

(* A second user has registered and is logged in. *)
C7_Witness ==
    /\ resp.handler = "register"
    /\ resp.method = "POST"
    /\ resp.location = "get_all_posts"
    /\ session[resp.client] = 2
    /\ users[2].email = resp.form.email

(* The effect C8 states of an edit of post p with a form. *)
Edited(p, form) ==
    /\ DOMAIN posts' = DOMAIN posts
    /\ posts'[p] = [author_id |-> ADMIN_ID, title |-> form.title,
                    subtitle |-> form.subtitle, date |-> posts[p].date,
                    body |-> form.body, img_url |-> form.img_url]
    /\ \A q \in DOMAIN posts \ {p} : posts'[q] = posts[q]
    /\ UNCHANGED <<users, comments>>

AdminEdits ==
    /\ resp'.handler = "edit_post"
    /\ resp'.method = "POST"
    /\ session[resp'.client] = ADMIN_ID
    /\ resp'.post_id \in DOMAIN posts

(* C8, as claimed: a valid edit_post submission by the admin on an         *)
(* existing post overwrites title, subtitle, image URL and body, sets the  *)
(* author to the admin and changes nothing else.                            *)
C8_EditOverwrites ==
    [][ AdminEdits => Edited(resp'.post_id, resp'.form) ]_vars

(* C8, amended: it does so when no other post has the submitted title;     *)
(* when another post has it, the answer is 500 and no row changes.         *)
C8_EditOverwritesUnlessTitleTaken ==
    [][ AdminEdits
            => IF \E q \in DOMAIN posts \ {resp'.post_id} :
                    posts[q].title = resp'.form.title
               THEN resp'.status = 500 /\ UNCHANGED tables
               ELSE Edited(resp'.post_id, resp'.form) ]_vars

(* The admin has edited a post that has a comment, another post existing. *)
C8_Witness ==
    /\ resp.handler = "edit_post"
    /\ resp.method = "POST"
    /\ resp.status = 302
    /\ Cardinality(DOMAIN posts) = 2
    /\ posts[resp.post_id].title = resp.form.title
    /\ \E k \in DOMAIN comments : comments[k].post_id = resp.post_id

(* C9: on the threaded server no two users ever have the same email; the   *)
(* insert of a register request whose email was taken after its check      *)
(* fails, the request is answered 500, and no session and no row changes.  *)
C9_RaceKeepsEmailUnique ==
    [][ /\ \A u, v \in DOMAIN users' :
            users'[u].email = users'[v].email => u = v
        /\ \A c \in Clients :
            (/\ inflight[c] # NoForm
             /\ inflight'[c] = NoForm
             /\ EmailTaken(inflight[c].email))
                => /\ resp'.handler = "register"
                   /\ resp'.client = c
                   /\ resp'.status = 500
                   /\ session' = session
                   /\ users' = users ]_vars

(* The later of two racing register requests was answered 500; the other   *)
(* client is logged in as the user with the email, this one is not.        *)
C9_Witness ==
    /\ resp.handler = "register"
    /\ resp.status = 500
    /\ session[resp.client] = Anonymous
    /\ \E c \in Clients \ {resp.client} :
            /\ session[c] # Anonymous
            /\ users[session[c]].email = resp.form.email

(* C10, as claimed: a session leaves Anonymous only by a login, leaves     *)
(* Authenticated(u) only for Anonymous and only by a logout, and is        *)
(* Anonymous after a logout.                                                *)
C10_LoginLogoutOnly ==
    [][ /\ \A c \in Clients :
            /\ (session[c] = Anonymous /\ session'[c] # Anonymous)
                    => (resp'.handler = "login" /\ resp'.client = c)
            /\ (session[c] # Anonymous /\ session'[c] # session[c])
                    => /\ session'[c] = Anonymous
                       /\ resp'.handler = "logout"
                       /\ resp'.client = c
        /\ resp'.handler = "logout"
                => session'[resp'.client] = Anonymous ]_vars

(* C10, amended: a session changes only by a request of its own client;    *)
(* it becomes Authenticated(v), from Anonymous or from Authenticated(u),   *)
(* only by a successful login as v or a successful registration of v; it   *)
(* becomes Anonymous only by a logout; and it is Anonymous after a logout. *)
C10_SessionChanges ==
    [][ /\ \A c \in Clients :
            session'[c] # session[c]
                => /\ resp'.client = c
                   /\ IF session'[c] = Anonymous
                      THEN resp'.handler = "logout"
                      ELSE /\ resp'.handler \in {"login", "register"}
                           /\ resp'.method = "POST"
                           /\ resp'.status = 302
                           /\ resp'.location = "get_all_posts"
                           /\ users'[session'[c]].email = resp'.form.email
        /\ resp'.handler = "logout"
                => session'[resp'.client] = Anonymous ]_vars

(* A registration has logged its client in, as a user who is not the       *)
(* first.                                                                   *)
C10_Witness ==
    /\ resp.handler = "register"
    /\ resp.status = 302
    /\ resp.location = "get_all_posts"
    /\ session[resp.client] = 2

====
